---- MODULE Spec2Model ----
(***************************************************************************)
(* Model of pkg/object/graph: the adjacency-list Graph over ObjMetadata    *)
(* vertices, its insertion operations, and the destructive topological     *)
(* Sort that peels the graph into layers of leaf vertices.                 *)
(*                                                                         *)
(* A vertex is held in the state as a small integer id; Meta(id) is the    *)
(* ObjMetadata value it stands for.  Meta is injective, so equality of ids *)
(* is Go's struct equality of the ObjMetadata values.  A Go string is a    *)
(* sequence of byte values, compared as Go compares strings.               *)
(***************************************************************************)
EXTENDS Integers, Sequences, FiniteSets, TLC

\* Largest number of edges the owner puts into one graph.
MaxEdges == 4

VARIABLES
    edges,          \* Graph.edges: map "from" vertex -> list of "to" vertices
    pc,             \* where the single owner of the graph is
    sorted,         \* Sort's local `sorted`, and its first return value
    leafVertices,   \* Sort's local `leafVertices` of the current pass
    next,           \* index into leafVertices of the removal loop
    err,            \* Sort's second return value
    start,          \* the graph as it was handed to the running/last Sort
    prev,           \* what the call of Sort before this one returned, if any
    run             \* the orchestrator's execution of the layers, if any

vars == <<edges, pc, sorted, leafVertices, next, err, start, prev, run>>

----------------------------------------------------------------------------
(* ObjMetadata values and their order *)

\* Byte-wise lexicographic order of Go strings (the < operator on strings).
RECURSIVE StrLess(_, _)
StrLess(a, b) ==
    IF b = <<>> THEN FALSE
    ELSE IF a = <<>> THEN TRUE
    ELSE IF Head(a) # Head(b) THEN Head(a) < Head(b)
    ELSE StrLess(Tail(a), Tail(b))

\* The ObjMetadata values the owner draws vertices from: the universe of the
\* model.  Their order is 2 < 4 < 1 < 3: decided by the kind, by the name
\* (a string and a longer one that sorts before it) and by the group.
MetaTable ==
    << [Group |-> <<>>,  Kind |-> <<2>>, Namespace |-> <<1>>, Name |-> <<2>>],
       [Group |-> <<>>,  Kind |-> <<1>>, Namespace |-> <<>>,  Name |-> <<1>>],
       [Group |-> <<1>>, Kind |-> <<1>>, Namespace |-> <<1>>, Name |-> <<1>>],
       [Group |-> <<>>,  Kind |-> <<2>>, Namespace |-> <<1>>, Name |-> <<1, 1>>] >>

Vertices == DOMAIN MetaTable

Meta(v) == MetaTable[v]

metaIsLessThan(i, j) ==
    IF i.Group # j.Group THEN StrLess(i.Group, j.Group)
    ELSE IF i.Kind # j.Kind THEN StrLess(i.Kind, j.Kind)
    ELSE IF i.Namespace # j.Namespace THEN StrLess(i.Namespace, j.Namespace)
    ELSE StrLess(i.Name, j.Name)

\* metaIsLessThan on every pair of the universe, evaluated once.
MetaLess == [a \in Vertices, b \in Vertices |-> metaIsLessThan(Meta(a), Meta(b))]

\* ordering.SortableMetas.Less
SortableMetasLess(a, b) == MetaLess[a, b]

\* SortableEdges.Less that looks at To before From.
SortableEdgesLessToFirst(a, b) ==
    IF a.To # b.To THEN MetaLess[a.To, b.To]
    ELSE MetaLess[a.From, b.From]

\* SortableEdges.Less
SortableEdgesLess(a, b) ==
    IF a.From # b.From THEN MetaLess[a.From, b.From]
    ELSE MetaLess[a.To, b.To]

\* The Less of the sort.Interface handed to sort.Sort, by its type.
Less(type, a, b) ==
    IF type = "SortableMetas" THEN SortableMetasLess(a, b)
    ELSE SortableEdgesLess(a, b)

\* One round of the insertion sort: x, appended to the sorted t, is swapped
\* with its predecessor as long as it is less than it.
SortInsert(t, x, type) ==
    LET stop == {i \in 1..Len(t) : ~Less(type, x, t[i])}
        k == IF stop = {} THEN 0 ELSE CHOOSE i \in stop : \A j \in stop : j <= i
    IN  SubSeq(t, 1, k) \o <<x>> \o SubSeq(t, k + 1, Len(t))

\* sort.Sort on a slice of fewer than 12 elements is an insertion sort.
\* The slice is sorted in place: each round works on the value the round
\* before left, which is why t is bound to that value.
SortBy(s, type) ==
    LET ins[k \in 0..Len(s)] ==
            IF k = 0 THEN <<>>
            ELSE CHOOSE r \in {SortInsert(t, s[k], type) : t \in {ins[k - 1]}} : TRUE
    IN  ins[Len(s)]

----------------------------------------------------------------------------
(* The Graph and its operations *)

\* New(): the empty map.
New == [v \in {} |-> <<>>]

\* The orders in which a `range` over a map with these keys can visit them.
RECURSIVE RangeOrders(_)
RangeOrders(keys) ==
    IF keys = {} THEN {<<>>}
    ELSE UNION {{<<k>> \o o : o \in RangeOrders(keys \ {k})} : k \in keys}

\* g.edges[v] = x on a map: v becomes a key if it was none.
MapSet(g, v, x) == [k \in DOMAIN g \cup {v} |-> IF k = v THEN x ELSE g[k]]

\* AddVertex without its presence check.
AddVertexReset(g, v) == MapSet(g, v, <<>>)

AddVertex(g, v) ==
    IF v \notin DOMAIN g THEN MapSet(g, v, <<>>) ELSE g

\* The adjacency check that finds nothing.
isAdjacentNever(g, from, to) == FALSE

\* The adjacency check that reads the list of the wrong vertex.
isAdjacentSwapped(g, from, to) ==
    IF to \notin DOMAIN g THEN FALSE
    ELSE \E i \in 1..Len(g[to]) : g[to][i] = from

isAdjacent(g, from, to) ==
    IF from \notin DOMAIN g THEN FALSE
    ELSE \E i \in 1..Len(g[from]) : g[from][i] = to

\* AddEdge that does not make "to" a vertex.
AddEdgeNoTo(g, from, to) ==
    LET g1 == IF from \notin DOMAIN g THEN MapSet(g, from, <<>>) ELSE g
    IN  IF ~isAdjacent(g1, from, to)
        THEN MapSet(g1, from, Append(g1[from], to))
        ELSE g1

\* AddEdge that turns a self-edge down.
AddEdgeNoSelf(g, from, to) ==
    LET g1 == IF from \notin DOMAIN g THEN MapSet(g, from, <<>>) ELSE g
        g2 == IF to \notin DOMAIN g1 THEN MapSet(g1, to, <<>>) ELSE g1
    IN  IF from # to /\ ~isAdjacent(g2, from, to)
        THEN MapSet(g2, from, Append(g2[from], to))
        ELSE g2

AddEdge(g, from, to) ==
    LET g1 == IF from \notin DOMAIN g THEN MapSet(g, from, <<>>) ELSE g
        g2 == IF to \notin DOMAIN g1 THEN MapSet(g1, to, <<>>) ELSE g1
    IN  IF ~isAdjacent(g2, from, to)
        THEN MapSet(g2, from, Append(g2[from], to))
        ELSE g2

Size(g) == Cardinality(DOMAIN g)

\* GetVertices without its sort.
GetVerticesUnsorted(g, order) == order

\* GetVertices, the map being ranged over in the order `order`.
GetVertices(g, order) == SortBy(order, "SortableMetas")

\* The edge list built from the first entry of every adjacency list only.
RangeEdgesFirstOnly(g, order) ==
    [i \in 1..Len(SelectSeq(order, LAMBDA v : g[v] # <<>>)) |->
        LET v == SelectSeq(order, LAMBDA w : g[w] # <<>>)[i]
        IN  [From |-> v, To |-> g[v][1]]]

\* The edge list GetEdges builds before sorting it.
RECURSIVE RangeEdges(_, _)
RangeEdges(g, order) ==
    IF order = <<>> THEN <<>>
    ELSE [i \in 1..Len(g[Head(order)]) |->
              [From |-> Head(order), To |-> g[Head(order)][i]]]
         \o RangeEdges(g, Tail(order))

GetEdges(g, order) == SortBy(RangeEdges(g, order), "SortableEdges")

\* ObjMetadataSet.Remove
Remove(set, r) == SelectSeq(set, LAMBDA x : x # r)

\* removeVertex without its first loop: the vertex stays in the adjacency lists.
removeVertexKeyOnly(g, r) == [v \in DOMAIN g \ {r} |-> g[v]]

removeVertex(g, r) ==
    LET g1 == [v \in DOMAIN g |-> Remove(g[v], r)]
    IN  [v \in DOMAIN g1 \ {r} |-> g1[v]]

\* The scan's test with its bound off by one.
IsLeafOffByOne(adj) == Len(adj) <= 1

\* The test of Sort's scan: a vertex with an empty adjacency list is a leaf.
IsLeaf(adj) == Len(adj) = 0

\* The scan that stops at the first leaf it finds.
ScanLeavesFirst(g, order) ==
    LET leaves == SelectSeq(order, LAMBDA v : g[v] = <<>>)
    IN  IF leaves = <<>> THEN <<>> ELSE <<leaves[1]>>

\* Sort's scan for the leaf vertices, the map ranged over in `order`.
ScanLeaves(g, order) == SelectSeq(order, LAMBDA v : IsLeaf(g[v]))

\* The loop condition with its bound off by one.
LoopCondOffByOne(g) == Size(g) > 1

\* The condition of Sort's loop.
LoopCond(g) == Size(g) > 0

NoError == [kind |-> "nil"]

\* validation.NewError(CyclicDependencyError{Edges: ...}, ids...)
CyclicDependencyError(es, ids) ==
    [kind |-> "CyclicDependencyError", Edges |-> es, Vertices |-> ids]

\* The number of edges of the graph, as the owner counts what it has added.
NumEdges(g) ==
    Cardinality(UNION {{<<v, i>> : i \in 1..Len(g[v])} : v \in DOMAIN g})

----------------------------------------------------------------------------
(* The owner of the graph: it adds vertices and edges, then calls Sort *)

\* What the caller holds of a call of Sort that has returned: the two return
\* values, and the graph as the call left it.
NoCall == [kind |-> "none"]
Call(s, e, g) == [kind |-> "call", sorted |-> s, err |-> e, edges |-> g]

\* No execution of the layers is under way.
NoRun == [mode |-> "none"]

Init ==
    /\ edges = New
    /\ pc = "idle"
    /\ sorted = <<>>
    /\ leafVertices = <<>>
    /\ next = 1
    /\ err = NoError
    /\ start = New
    /\ prev = NoCall
    /\ run = NoRun

\* The graph is built before it is handed to Sort.  Adding to a graph that
\* Sort has emptied or left as a residue builds a graph that is also built
\* directly, so the insertions are taken while no Sort has run.
Idle(g) ==
    /\ edges' = g
    /\ pc' = "idle"
    /\ sorted' = <<>>
    /\ leafVertices' = <<>>
    /\ next' = 1
    /\ err' = NoError
    /\ start' = New
    /\ prev' = NoCall
    /\ run' = NoRun

CallAddVertex ==
    /\ pc = "idle"
    /\ \E v \in Vertices : Idle(AddVertex(edges, v))

CallAddEdge ==
    /\ pc = "idle"
    /\ \E from \in Vertices, to \in Vertices :
          /\ NumEdges(edges) < MaxEdges \/ isAdjacent(edges, from, to)
          /\ Idle(AddEdge(edges, from, to))

\* Sort is called with a `sorted` that still holds the layers of the call
\* before.
SortEnterKeepSorted ==
    /\ pc \in {"idle", "returned"}
    /\ pc' = "loop"
    /\ sorted' = sorted
    /\ leafVertices' = <<>>
    /\ next' = 1
    /\ err' = NoError
    /\ start' = edges
    /\ prev' = IF pc = "returned" THEN Call(sorted, err, edges) ELSE NoCall
    /\ UNCHANGED <<edges, run>>

\* Sort is called: sorted := []
SortEnter ==
    /\ pc \in {"idle", "returned"}
    /\ pc' = "loop"
    /\ sorted' = <<>>
    /\ leafVertices' = <<>>
    /\ next' = 1
    /\ err' = NoError
    /\ start' = edges
    /\ prev' = IF pc = "returned" THEN Call(sorted, err, edges) ELSE NoCall
    /\ UNCHANGED <<edges, run>>

\* The loop condition g.Size() > 0 fails: return sorted, nil
SortReturn ==
    /\ pc = "loop"
    /\ ~LoopCond(edges)
    /\ pc' = "returned"
    /\ err' = NoError
    /\ UNCHANGED <<edges, sorted, leafVertices, next, start, prev, run>>

\* A pass that goes on to its removal loop whatever its scan found.
SortScanNoCheck ==
    /\ pc = "loop"
    /\ LoopCond(edges)
    /\ \E lv \in {ScanLeaves(edges, o) : o \in RangeOrders(DOMAIN edges)} :
          leafVertices' = lv
    /\ next' = 1
    /\ pc' = "remove"
    /\ UNCHANGED <<edges, sorted, err, start, prev, run>>

\* A pass whose scan finds leaves: the removal loop begins.
SortScan ==
    /\ pc = "loop"
    /\ LoopCond(edges)
    /\ \E lv \in {ScanLeaves(edges, o) : o \in RangeOrders(DOMAIN edges)} :
          /\ Len(lv) # 0
          /\ leafVertices' = lv
    /\ next' = 1
    /\ pc' = "remove"
    /\ UNCHANGED <<edges, sorted, err, start, prev, run>>

\* A failing pass that puts the removed vertices back before it returns.
SortCycleRollback ==
    /\ pc = "loop"
    /\ LoopCond(edges)
    /\ \E lv \in {ScanLeaves(edges, o) : o \in RangeOrders(DOMAIN edges)} :
          /\ Len(lv) = 0
          /\ leafVertices' = lv
    /\ LET orders == RangeOrders(DOMAIN edges)
       IN  \E es \in {GetEdges(edges, o) : o \in orders},
              ids \in {GetVertices(edges, o) : o \in orders} :
              err' = CyclicDependencyError(es, ids)
    /\ pc' = "returned"
    /\ edges' = start
    /\ UNCHANGED <<sorted, next, start, prev, run>>

\* A pass whose scan finds no leaf: return sorted and the error.
SortCycle ==
    /\ pc = "loop"
    /\ LoopCond(edges)
    /\ \E lv \in {ScanLeaves(edges, o) : o \in RangeOrders(DOMAIN edges)} :
          /\ Len(lv) = 0
          /\ leafVertices' = lv
    /\ LET orders == RangeOrders(DOMAIN edges)
       IN  \E es \in {GetEdges(edges, o) : o \in orders},
              ids \in {GetVertices(edges, o) : o \in orders} :
              err' = CyclicDependencyError(es, ids)
    /\ pc' = "returned"
    /\ UNCHANGED <<edges, sorted, next, start, prev, run>>

\* A removal that also takes up the vertices it has just left without
\* dependencies into the batch being removed.
SortRemoveCascade ==
    /\ pc = "remove"
    /\ next <= Len(leafVertices)
    /\ edges' = removeVertex(edges, leafVertices[next])
    /\ next' = next + 1
    /\ \E order \in RangeOrders(DOMAIN edges') :
          leafVertices' = leafVertices \o
              SelectSeq(ScanLeaves(edges', order),
                        LAMBDA v : \A i \in 1..Len(leafVertices) : leafVertices[i] # v)
    /\ UNCHANGED <<pc, sorted, err, start, prev, run>>

\* One iteration of `for _, v := range leafVertices { g.removeVertex(v) }`
SortRemove ==
    /\ pc = "remove"
    /\ next <= Len(leafVertices)
    /\ edges' = removeVertex(edges, leafVertices[next])
    /\ next' = next + 1
    /\ UNCHANGED <<pc, sorted, leafVertices, err, start, prev, run>>

\* The removal loop is over and the batch is put into the layer before it
\* instead of a layer of its own.
SortAppendMerge ==
    /\ pc = "remove"
    /\ next > Len(leafVertices)
    /\ sorted' = IF sorted = <<>> THEN <<leafVertices>>
                 ELSE [sorted EXCEPT ![Len(sorted)] = @ \o leafVertices]
    /\ pc' = "loop"
    /\ UNCHANGED <<edges, leafVertices, next, err, start, prev, run>>

\* The removal loop is over: sorted = append(sorted, leafVertices)
SortAppend ==
    /\ pc = "remove"
    /\ next > Len(leafVertices)
    /\ sorted' = Append(sorted, leafVertices)
    /\ pc' = "loop"
    /\ UNCHANGED <<edges, leafVertices, next, err, start, prev, run>>

Next ==
    \/ CallAddVertex
    \/ CallAddEdge
    \/ SortEnter
    \/ SortReturn
    \/ SortScan
    \/ SortCycle
    \/ SortRemove
    \/ SortAppend

Spec == Init /\ [][Next]_vars

\* Sort is one sequential function without a blocking call: once entered,
\* its next statement is executed.
SortStep == SortReturn \/ SortScan \/ SortCycle \/ SortRemove \/ SortAppend

SpecFair == Spec /\ WF_vars(SortStep)

----------------------------------------------------------------------------
(* The orchestrator that consumes the layer sequence *)

\* Largest number of resources the worker pool processes at one time.
PoolSize == 2

Reverse(s) == [i \in 1..Len(s) |-> s[Len(s) + 1 - i]]

\* The groups of an execution, in the order they are run: the layers for
\* creation, the layers in reverse for deletion.
GroupsOf(mode, srt) == IF mode = "apply" THEN srt ELSE Reverse(srt)

Terminal(s) == s \in {"succeeded", "failed"}

InSeq(s, v) == \E i \in 1..Len(s) : s[i] = v

NumRunning(st) == Cardinality({v \in DOMAIN st : st[v] = "running"})

\* The orchestrator takes the layers a successful Sort returned, for
\* creation or for deletion: no group has started, no resource has begun.
OrchBegin ==
    /\ pc = "returned"
    /\ err = NoError
    /\ \E mode \in {"apply", "prune"} :
          run' = [mode |-> mode,
                  groups |-> GroupsOf(mode, sorted),
                  group |-> [i \in 1..Len(sorted) |-> "waiting"],
                  status |-> [v \in DOMAIN start |-> "pending"]]
    /\ pc' = "executing"
    /\ UNCHANGED <<edges, sorted, leafVertices, next, err, start, prev>>

\* The next group reports Started: the first group, or the one after a
\* group that has reported Finished.
GroupStarted ==
    /\ pc = "executing"
    /\ \E i \in DOMAIN run.group :
          /\ run.group[i] = "waiting"
          /\ IF i = 1 THEN TRUE ELSE run.group[i - 1] = "finished"
          /\ run' = [run EXCEPT !.group[i] = "started"]
    /\ UNCHANGED <<edges, pc, sorted, leafVertices, next, err, start, prev>>

\* A worker of the pool begins a resource of the group that has started.
ResourceBegin ==
    /\ pc = "executing"
    /\ NumRunning(run.status) < PoolSize
    /\ \E i \in DOMAIN run.group, v \in DOMAIN run.status :
          /\ run.group[i] = "started"
          /\ InSeq(run.groups[i], v)
          /\ run.status[v] = "pending"
          /\ run' = [run EXCEPT !.status[v] = "running"]
    /\ UNCHANGED <<edges, pc, sorted, leafVertices, next, err, start, prev>>

\* A worker reaches a terminal outcome for its resource: success or a
\* reported failure.
ResourceEnd ==
    /\ pc = "executing"
    /\ \E v \in DOMAIN run.status, outcome \in {"succeeded", "failed"} :
          /\ run.status[v] = "running"
          /\ run' = [run EXCEPT !.status[v] = outcome]
    /\ UNCHANGED <<edges, pc, sorted, leafVertices, next, err, start, prev>>

\* The group that has started reports Finished once every resource of it
\* has reached a terminal outcome.
GroupFinished ==
    /\ pc = "executing"
    /\ \E i \in DOMAIN run.group :
          /\ run.group[i] = "started"
          /\ \A k \in 1..Len(run.groups[i]) : Terminal(run.status[run.groups[i][k]])
          /\ run' = [run EXCEPT !.group[i] = "finished"]
    /\ UNCHANGED <<edges, pc, sorted, leafVertices, next, err, start, prev>>

NextOrch ==
    \/ Next
    \/ OrchBegin
    \/ GroupStarted
    \/ ResourceBegin
    \/ ResourceEnd
    \/ GroupFinished

SpecOrch == Init /\ [][NextOrch]_vars

----------------------------------------------------------------------------
(* What the claims speak of *)

Range(s) == {s[i] : i \in 1..Len(s)}

\* The vertex and edge facts a graph holds.
VertexSet(g) == DOMAIN g
EdgeSet(g) == UNION {{<<a, b>> : b \in Range(g[a])} : a \in DOMAIN g}

\* The vertices reachable from those of S along the edges of E.
RECURSIVE Closure(_, _)
Closure(E, S) ==
    LET T == S \cup {e[2] : e \in {d \in E : d[1] \in S}}
    IN  IF T = S THEN S ELSE Closure(E, T)

\* What v depends on, directly or through others.
DependsOn(E, v) == Closure(E, {e[2] : e \in {d \in E : d[1] = v}})

\* A cycle: a vertex that depends on itself (a self-edge is one).
Cyclic(E) == \E e \in E : e[1] \in DependsOn(E, e[1])
Acyclic(E) == ~Cyclic(E)

\* The indices (from 1) of the layers of srt that hold v.
LayersOf(srt, v) == {i \in 1..Len(srt) : v \in Range(srt[i])}

\* All layers of srt, one after the other.
RECURSIVE Concat(_)
Concat(srt) == IF srt = <<>> THEN <<>> ELSE Head(srt) \o Concat(Tail(srt))

Returned == pc = "returned"

\* C1 (ordering): when Sort has returned for a graph whose edge set is
\* acyclic, then for every edge (a depends on b) of that graph both a and b
\* are in a layer and every layer holding b comes strictly before every
\* layer holding a.
C1_Ordering ==
    (Returned /\ Acyclic(EdgeSet(start))) =>
        \A e \in EdgeSet(start) :
            /\ LayersOf(sorted, e[1]) # {}
            /\ LayersOf(sorted, e[2]) # {}
            /\ \A i \in LayersOf(sorted, e[1]), j \in LayersOf(sorted, e[2]) : j < i

\* A chain a -> b -> c was sorted into three layers.
C1_Witness ==
    /\ Returned
    /\ Acyclic(EdgeSet(start))
    /\ Len(sorted) = 3
    /\ \E a, b, c \in Vertices :
          {<<a, b>>, <<b, c>>} \subseteq EdgeSet(start) /\ a # b /\ b # c

\* C2 (completeness): when Sort has returned for a graph whose edge set is
\* acyclic, the layers one after the other are a permutation of the vertex
\* set the graph had when Sort was called: every vertex is in exactly one
\* layer, once, and nothing else is in a layer.
C2_Completeness ==
    (Returned /\ Acyclic(EdgeSet(start))) =>
        /\ Range(Concat(sorted)) = VertexSet(start)
        /\ Len(Concat(sorted)) = Cardinality(VertexSet(start))
        /\ \A v \in VertexSet(start) : Cardinality(LayersOf(sorted, v)) = 1

\* Four vertices, three of them with a dependency, were sorted.
C2_Witness ==
    /\ Returned
    /\ Acyclic(EdgeSet(start))
    /\ Cardinality(VertexSet(start)) = 4
    /\ Cardinality(EdgeSet(start)) >= 3
    /\ Len(Concat(sorted)) = 4

\* The edges and the vertices a failure carries, as facts.
ErrEdgeSet(e) == {<<e.Edges[i].From, e.Edges[i].To>> : i \in 1..Len(e.Edges)}
ErrVertexSet(e) == Range(e.Vertices)
Failed(e) == e.kind = "CyclicDependencyError"

\* The failure e carries exactly the edges and the vertices of g, each once.
CarriesExactly(e, g) ==
    /\ Failed(e)
    /\ ErrEdgeSet(e) = EdgeSet(g)
    /\ Len(e.Edges) = Cardinality(EdgeSet(g))
    /\ ErrVertexSet(e) = VertexSet(g)
    /\ Len(e.Vertices) = Cardinality(VertexSet(g))

\* A pass is about to run on a non-empty graph that has no leaf.
Stuck == pc = "loop" /\ DOMAIN edges # {} /\ \A v \in DOMAIN edges : edges[v] # <<>>

\* The 3-cycle with an independent fourth vertex, and the pure 2-cycle.
C3_Examples ==
    /\ \A a, b, c, d \in Vertices :
          (/\ Returned
           /\ Cardinality({a, b, c, d}) = 4
           /\ VertexSet(start) = {a, b, c, d}
           /\ EdgeSet(start) = {<<a, b>>, <<b, c>>, <<c, a>>})
          => /\ sorted = << <<d>> >>
             /\ Failed(err)
             /\ ErrEdgeSet(err) = {<<a, b>>, <<b, c>>, <<c, a>>}
             /\ ErrVertexSet(err) = {a, b, c}
    /\ \A x, y \in Vertices :
          (/\ Returned
           /\ x # y
           /\ VertexSet(start) = {x, y}
           /\ EdgeSet(start) = {<<x, y>>, <<y, x>>})
          => /\ sorted = <<>>
             /\ Failed(err)
             /\ ErrEdgeSet(err) = {<<x, y>>, <<y, x>>}
             /\ ErrVertexSet(err) = {x, y}

\* C3 (cycle failure content): the step Sort takes when a pass finds no
\* leaf in a non-empty graph is its return: the layers produced so far are
\* returned as they are, no vertex is removed, and the failure carries
\* exactly every edge and exactly every vertex left in the graph.  A failure
\* is returned by no other step.  The 3-cycle with an independent vertex d
\* gives the one layer {d} and the failure of the cycle; a 2-cycle gives no
\* layer.
C3_CycleFailure ==
    /\ [](C3_Examples)
    /\ [](Failed(err) => (Returned /\ CarriesExactly(err, edges)))
    /\ [][Stuck => /\ pc' = "returned"
                   /\ sorted' = sorted
                   /\ edges' = edges
                   /\ CarriesExactly(err', edges)]_vars

\* Sort returned the layer {d} and the failure of a 3-cycle.
C3_Witness ==
    /\ Returned
    /\ Failed(err)
    /\ Len(sorted) = 1
    /\ Cardinality(VertexSet(start)) = 4
    /\ Cardinality(VertexSet(edges)) = 3
    /\ Cardinality(EdgeSet(edges)) = 3
    /\ Len(err.Edges) = 3

\* C4 (failure exactly on cycles): Sort returns the cyclic-dependency failure
\* if and only if the graph it was called on has a cycle (a self-edge is
\* one); for an acyclic graph, the empty one included, it returns no
\* failure; and what it returns is never anything but nil or that failure.
C4_FailureIffCycle ==
    /\ err.kind \in {"nil", "CyclicDependencyError"}
    /\ Returned => (Failed(err) <=> Cyclic(EdgeSet(start)))
    /\ (Returned /\ start = New) => err = NoError

\* Sort failed on a graph one of whose vertices is on no cycle itself but
\* depends on one.
C4_Witness ==
    /\ Returned
    /\ Failed(err)
    /\ \E v \in VertexSet(edges) :
          /\ v \notin DependsOn(EdgeSet(start), v)
          /\ edges[v] # <<>>

\* The layers the vertex and edge facts (V, E) determine: the vertices with
\* no edge from them, then the same of what is left.
RECURSIVE Peel(_, _)
Peel(V, E) ==
    LET L == {v \in V : \A e \in E : e[1] # v}
    IN  IF L = {} THEN <<>>
        ELSE <<L>> \o Peel(V \ L, {e \in E : e[2] \notin L})

\* The facts left when no vertex is without an edge from it.
RECURSIVE ResidueV(_, _)
ResidueV(V, E) ==
    LET L == {v \in V : \A e \in E : e[1] # v}
    IN  IF L = {} THEN V ELSE ResidueV(V \ L, {e \in E : e[2] \notin L})
ResidueE(V, E) == {e \in E : e[1] \in ResidueV(V, E) /\ e[2] \in ResidueV(V, E)}

\* The one ascending sequence of the elements of the set S.
Ascending(S, type) ==
    [k \in 1..Cardinality(S) |->
        CHOOSE x \in S : Cardinality({y \in S : Less(type, y, x)}) = k - 1]

EdgeFact(e) == [From |-> e[1], To |-> e[2]]

\* The result of Sort that the facts (V, E) alone determine.
ResultOf(V, E) ==
    [layers |-> Peel(V, E),
     failure |-> IF ResidueV(V, E) = {} THEN NoError
                 ELSE CyclicDependencyError(
                          Ascending({EdgeFact(e) : e \in ResidueE(V, E)},
                                    "SortableEdges"),
                          Ascending(ResidueV(V, E), "SortableMetas"))]

LayerSets(srt) == [i \in 1..Len(srt) |-> Range(srt[i])]

\* C5 (determinism): what Sort returns is a function of the vertex and
\* edge facts of the graph alone: however the facts were inserted (whatever
\* the order within the adjacency lists) and in whatever order the map is
\* ranged over, the number of layers, the set of vertices of each layer and
\* the failure with its edge list and vertex list are the same.
C5_Determinism ==
    Returned =>
        LET r == ResultOf(VertexSet(start), EdgeSet(start))
        IN  /\ LayerSets(sorted) = r.layers
            /\ err = r.failure

\* Sort returned for a graph with an adjacency list that another insertion
\* order would have built otherwise, one layer in an order another range
\* order would have given otherwise.
C5_Witness ==
    /\ Returned
    /\ \E v \in VertexSet(start) :
          Len(start[v]) >= 2 /\ start[v][1] > start[v][2]
    /\ \E i \in 1..Len(sorted) :
          Len(sorted[i]) >= 2 /\ sorted[i][1] > sorted[i][2]

\* The length of the longest chain of dependencies that starts at v.
RECURSIVE Depth(_, _)
Depth(E, v) ==
    LET deps == {e[2] : e \in {d \in E : d[1] = v}}
        ds == {Depth(E, w) : w \in deps}
    IN  IF deps = {} THEN 0
        ELSE 1 + CHOOSE m \in ds : \A n \in ds : n <= m

\* C6 (maximal layers): for an acyclic graph the layer of a vertex is the
\* one whose index (from 0) is the length of the longest dependency chain
\* starting at it; so a vertex in a layer after the first has a dependency
\* in the layer just before, and the diamond a->b, a->c, b->d, c->d is
\* sorted into {d}, {b, c}, {a}.
C6_MaximalLayers ==
    (Returned /\ Acyclic(EdgeSet(start))) =>
        /\ \A v \in VertexSet(start) :
              LayersOf(sorted, v) = {Depth(EdgeSet(start), v) + 1}
        /\ \A i \in 2..Len(sorted) : \A v \in Range(sorted[i]) :
              \E w \in Range(sorted[i - 1]) : <<v, w>> \in EdgeSet(start)
        /\ \A a, b, c, d \in Vertices :
              (/\ Cardinality({a, b, c, d}) = 4
               /\ VertexSet(start) = {a, b, c, d}
               /\ EdgeSet(start) = {<<a, b>>, <<a, c>>, <<b, d>>, <<c, d>>})
              => LayerSets(sorted) = <<{d}, {b, c}, {a}>>

\* The diamond was sorted.
C6_Witness ==
    /\ Returned
    /\ Len(sorted) = 3
    /\ \E a, b, c, d \in Vertices :
          /\ Cardinality({a, b, c, d}) = 4
          /\ EdgeSet(start) = {<<a, b>>, <<a, c>>, <<b, d>>, <<c, d>>}
          /\ Len(sorted[2]) = 2

SelfEdged(g) == {v \in DOMAIN g : <<v, v>> \in EdgeSet(g)}

\* C7 (self-edge): AddEdge(v, v) is taken like any other edge: after it v
\* is a vertex adjacent to itself.  A vertex with a self-edge is never among
\* the leaves of a pass and never in a layer.  Sort on the graph of the one
\* vertex z with the edge z -> z returns no layer and the failure whose
\* vertices are exactly z and whose edges are exactly z -> z.
C7_SelfEdge ==
    /\ \A v \in Vertices :
          /\ v \in DOMAIN AddEdge(edges, v, v)
          /\ isAdjacent(AddEdge(edges, v, v), v, v)
    /\ \A v \in SelfEdged(start) :
          /\ v \notin Range(leafVertices)
          /\ LayersOf(sorted, v) = {}
    /\ \A z \in Vertices :
          (Returned /\ VertexSet(start) = {z} /\ EdgeSet(start) = {<<z, z>>})
          => /\ sorted = <<>>
             /\ Failed(err)
             /\ err.Vertices = <<z>>
             /\ err.Edges = <<[From |-> z, To |-> z]>>

\* Sort returned layers and a failure for a graph with a self-edge whose
\* vertex depends on nothing else.
C7_Witness ==
    /\ Returned
    /\ Len(sorted) >= 1
    /\ Failed(err)
    /\ \E v \in SelfEdged(start) : start[v] = <<v>> /\ v \in ErrVertexSet(err)

\* C8 (idempotent insertion): in every state, for every vertex and every
\* pair of vertices, a second AddVertex or AddEdge with the same arguments
\* leaves the graph as the first left it: the same vertices, the same
\* adjacency lists, the same Size.
C8_IdempotentInsertion ==
    /\ \A v \in Vertices :
          LET g1 == AddVertex(edges, v)
              g2 == AddVertex(g1, v)
          IN  /\ g2 = g1
              /\ Size(g2) = Size(g1)
              /\ VertexSet(g2) = VertexSet(g1) /\ EdgeSet(g2) = EdgeSet(g1)
    /\ \A from, to \in Vertices :
          LET g1 == AddEdge(edges, from, to)
              g2 == AddEdge(g1, from, to)
          IN  /\ g2 = g1
              /\ Size(g2) = Size(g1)
              /\ VertexSet(g2) = VertexSet(g1) /\ EdgeSet(g2) = EdgeSet(g1)
              /\ NumEdges(g2) = NumEdges(g1)

\* A graph that holds an edge which is not the last of its adjacency list:
\* adding it again changes nothing.
C8_Witness ==
    /\ pc = "idle"
    /\ \E from, to \in Vertices :
          /\ isAdjacent(edges, from, to)
          /\ Len(edges[from]) >= 2
          /\ edges[from][1] = to
          /\ AddEdge(edges, from, to) = edges
          /\ AddVertex(edges, from) = edges

\* C9 (no dangling references): in every state, also between the removals
\* of a pass of Sort, every vertex in an adjacency list is a key of the map.
C9_NoDangling ==
    \A v \in DOMAIN edges : Range(edges[v]) \subseteq DOMAIN edges

\* Sort has removed a leaf that another vertex depended on, and that vertex
\* still depends on something.
C9_Witness ==
    /\ pc = "remove"
    /\ next > 1
    /\ \E v \in DOMAIN edges :
          /\ Len(edges[v]) < Len(start[v])
          /\ edges[v] # <<>>

Distinct(s) == \A i, j \in 1..Len(s) : i # j => s[i] # s[j]

\* C10 (no duplicate edges): in every state no adjacency list holds a vertex
\* twice, and whenever the owner can call GetEdges (Sort is not running) the
\* list it gets holds no pair twice, whatever the order the map is ranged in.
C10_NoDuplicateEdges ==
    /\ \A v \in DOMAIN edges : Distinct(edges[v])
    /\ pc \in {"idle", "returned"} =>
          \A order \in RangeOrders(DOMAIN edges) :
              /\ Distinct(GetEdges(edges, order))
              /\ Len(GetEdges(edges, order)) = Cardinality(EdgeSet(edges))

\* A graph with as many edges as the owner adds, two of them from one vertex.
C10_Witness ==
    /\ pc = "idle"
    /\ NumEdges(edges) = MaxEdges
    /\ \E v \in DOMAIN edges : Len(edges[v]) >= 2

\* The (group, kind, namespace, name) tuple of an ObjMetadata value, and the
\* lexicographic order of such tuples.
Key(m) == <<m.Group, m.Kind, m.Namespace, m.Name>>

RECURSIVE TupleLess(_, _)
TupleLess(a, b) ==
    IF a = <<>> \/ b = <<>> THEN FALSE
    ELSE IF Head(a) # Head(b) THEN StrLess(Head(a), Head(b))
    ELSE TupleLess(Tail(a), Tail(b))

KeyLess(v, w) == TupleLess(Key(Meta(v)), Key(Meta(w)))

\* ObjMetadata values beyond the universe: every field empty, one byte, a
\* greater byte, or two bytes.
FieldValues == {<<>>, <<1>>, <<2>>, <<1, 2>>}
MetaValues == [Group : FieldValues, Kind : FieldValues,
               Namespace : FieldValues, Name : FieldValues]

\* metaIsLessThan is the order of the tuples, on all these values.
MetaOrderIsTupleOrder ==
    \A a \in MetaValues, b \in MetaValues :
        metaIsLessThan(a, b) <=> TupleLess(Key(a), Key(b))

\* s lists the vertices of S, each once, in ascending tuple order.
AscendingVertices(s, S) ==
    /\ Range(s) = S
    /\ Len(s) = Cardinality(S)
    /\ \A i, j \in 1..Len(s) : i < j => KeyLess(s[i], s[j])

\* s lists the edges of E, each once, ascending by From and then by To.
AscendingEdges(s, E) ==
    /\ {<<s[i].From, s[i].To>> : i \in 1..Len(s)} = E
    /\ Len(s) = Cardinality(E)
    /\ \A i, j \in 1..Len(s) : i < j =>
          \/ KeyLess(s[i].From, s[j].From)
          \/ s[i].From = s[j].From /\ KeyLess(s[i].To, s[j].To)

\* C11 (deterministic enumeration): whenever the owner can call them,
\* GetVertices returns every vertex exactly once in ascending (group, kind,
\* namespace, name) order and GetEdges every edge exactly once ascending by
\* From and then by To, in whatever order the map is ranged over and the
\* adjacency lists were filled; so repeated calls and graphs of the same
\* facts give the same sequences.  The order metaIsLessThan computes is
\* that tuple order.
C11_DeterministicEnumeration ==
    [](/\ MetaOrderIsTupleOrder
       /\ pc \in {"idle", "returned"} =>
             LET orders == RangeOrders(DOMAIN edges)
             IN  /\ \A s \in {GetVertices(edges, o) : o \in orders} :
                       AscendingVertices(s, VertexSet(edges))
                 /\ \A s \in {GetEdges(edges, o) : o \in orders} :
                       AscendingEdges(s, EdgeSet(edges)))

\* A graph of four vertices whose adjacency lists were filled against the
\* order: one list holds a greater vertex before a smaller one, and a
\* greater vertex got its edge while a smaller one has one too.
C11_Witness ==
    /\ pc = "idle"
    /\ Cardinality(DOMAIN edges) = 4
    /\ \E v \in DOMAIN edges :
          Len(edges[v]) >= 2 /\ KeyLess(edges[v][2], edges[v][1])
    /\ \E v, w \in DOMAIN edges :
          v # w /\ edges[v] # <<>> /\ edges[w] # <<>>

\* The graph g without the vertices of R: neither as keys nor in any
\* dependency set, the remaining entries in their order.
Without(g, R) ==
    [v \in DOMAIN g \ R |-> SelectSeq(g[v], LAMBDA x : x \notin R)]

\* C12 (graph state after Sort): when Sort has returned without failure the
\* graph is empty (Size() = 0); when it has returned the failure the graph
\* is not empty and is the residual graph: it holds exactly the vertices
\* and edges the failure reports, which is the graph Sort started on
\* without the vertices of the layers produced, and nothing is put back.
C12_StateAfterSort ==
    /\ (Returned /\ ~Failed(err)) => (Size(edges) = 0 /\ edges = New)
    /\ (Returned /\ Failed(err)) =>
          /\ Size(edges) > 0
          /\ CarriesExactly(err, edges)
          /\ edges = Without(start, Range(Concat(sorted)))

\* A failure returned after a layer was produced, so that a rollback would
\* show: the residual graph is smaller than the one Sort started on.
C12_Witness ==
    /\ Returned
    /\ Failed(err)
    /\ sorted # <<>>
    /\ Size(edges) >= 2
    /\ Size(edges) < Size(start)

\* The vertices of g whose dependency set is empty.
EmptySet(g) == {v \in DOMAIN g : g[v] = <<>>}

\* C15 (batch-at-a-time removal): the scan of a pass identifies exactly the
\* vertices whose dependency set is empty at the start of the pass, each
\* once, and removes nothing; the removals of the pass do not change the
\* batch; the layer appended is that batch, and a vertex whose dependency
\* set became empty during the pass is still in the graph afterwards, left
\* for a later layer.
C15_BatchRemoval ==
    [][/\ (pc = "loop" /\ pc' = "remove") =>
            /\ Range(leafVertices') = EmptySet(edges)
            /\ Len(leafVertices') = Cardinality(EmptySet(edges))
            /\ edges' = edges
       /\ (pc = "remove" /\ pc' = "remove") =>
            /\ leafVertices' = leafVertices
            /\ DOMAIN edges' = DOMAIN edges \ {leafVertices[next]}
       /\ (pc = "remove" /\ pc' = "loop") =>
            /\ sorted' = Append(sorted, leafVertices)
            /\ DOMAIN edges \cap Range(leafVertices) = {}
            /\ edges' = edges
      ]_vars

\* In the middle of a pass a vertex outside the batch has lost its last
\* dependency.
C15_Witness ==
    /\ pc = "remove"
    /\ next > 1
    /\ \E v \in EmptySet(edges) : v \notin Range(leafVertices)

\* s is the beginning of t.
IsPrefix(s, t) == Len(s) <= Len(t) /\ \A i \in 1..Len(s) : s[i] = t[i]

\* C16 (insertion frame): AddVertex of a vertex the graph holds returns the
\* graph as it was, dependency sets included; AddVertex of a vertex it does
\* not hold adds that vertex with an empty dependency set and changes no
\* other entry.  AddEdge(from, to) removes no vertex and no edge, leaves
\* the dependency set of every vertex other than from as it was, gives a
\* vertex it had to add an empty set (but for from, which gets the edge),
\* and only extends the set of from.
C16_InsertionFrame ==
    pc = "idle" =>
      /\ \A v \in Vertices :
            LET g1 == AddVertex(edges, v)
            IN  /\ v \in DOMAIN edges => g1 = edges
                /\ v \notin DOMAIN edges =>
                      /\ DOMAIN g1 = DOMAIN edges \cup {v}
                      /\ g1[v] = <<>>
                      /\ \A k \in DOMAIN edges : g1[k] = edges[k]
      /\ \A from, to \in Vertices :
            LET g1 == AddEdge(edges, from, to)
            IN  /\ DOMAIN edges \subseteq DOMAIN g1
                /\ DOMAIN g1 \subseteq DOMAIN edges \cup {from, to}
                /\ EdgeSet(edges) \subseteq EdgeSet(g1)
                /\ \A k \in DOMAIN edges \ {from} : g1[k] = edges[k]
                /\ \A k \in DOMAIN g1 \ (DOMAIN edges \cup {from}) : g1[k] = <<>>
                /\ from \in DOMAIN edges => IsPrefix(edges[from], g1[from])

\* A graph that holds a vertex with dependencies, which a second AddVertex
\* could reset, and lacks a vertex, which an AddEdge to it has to add.
C16_Witness ==
    /\ pc = "idle"
    /\ \E v \in DOMAIN edges, w \in Vertices \ DOMAIN edges :
          /\ Len(edges[v]) >= 2
          /\ AddVertex(edges, v) = edges
          /\ w \in DOMAIN AddEdge(edges, v, w)

\* The vertices of the layers and those of the residual graph.
LayerVertices == Range(Concat(sorted))

\* C18 (partition on failure): when Sort has returned the failure, the
\* layers produced and the vertex set the failure reports are pairwise
\* disjoint and together are the vertices Sort started on; no vertex of a
\* layer depends on a reported vertex; and every edge of the starting
\* graph between two reported vertices is in the reported edge list.
C18_PartitionOnFailure ==
    (Returned /\ Failed(err)) =>
        /\ \A i, j \in 1..Len(sorted) :
              i # j => Range(sorted[i]) \cap Range(sorted[j]) = {}
        /\ \A i \in 1..Len(sorted) : Distinct(sorted[i])
        /\ LayerVertices \cap ErrVertexSet(err) = {}
        /\ Distinct(err.Vertices)
        /\ LayerVertices \cup ErrVertexSet(err) = VertexSet(start)
        /\ \A e \in EdgeSet(start) :
              e[1] \in LayerVertices => e[2] \notin ErrVertexSet(err)
        /\ \A e \in EdgeSet(start) :
              (e[1] \in ErrVertexSet(err) /\ e[2] \in ErrVertexSet(err))
                  => e \in ErrEdgeSet(err)

\* A failure after two layers, where a reported vertex depends on a vertex
\* of a layer and two edges join reported vertices.
C18_Witness ==
    /\ Returned
    /\ Failed(err)
    /\ Len(sorted) >= 1
    /\ \E e \in EdgeSet(start) :
          e[1] \in ErrVertexSet(err) /\ e[2] \in LayerVertices
    /\ Cardinality(ErrEdgeSet(err)) >= 2

Running == pc \in {"loop", "remove"}

\* C17 (termination): a call of Sort returns.  A pass either returns the
\* failure or has found at least one vertex to remove, so every layer is
\* non-empty, the vertices in the layers and in the graph are those Sort
\* started on, and the passes made (one per layer, and the failing one)
\* and the layers are at most as many as the vertices.
C17_Termination ==
    /\ Running ~> Returned
    /\ [](/\ \A i \in 1..Len(sorted) : sorted[i] # <<>>
          /\ Len(sorted) <= Size(start)
          /\ (pc = "remove") => (leafVertices # <<>> /\ Len(sorted) < Size(start))
          /\ (pc = "loop") => Size(edges) + Len(Concat(sorted)) = Size(start)
          /\ (Returned /\ Failed(err)) => Len(sorted) + 1 <= Size(start))
    /\ [][(pc = "loop") =>
             \/ pc' = "returned"
             \/ pc' = "remove" /\ leafVertices' # <<>>]_vars
    /\ [][(pc = "remove" /\ next = 1 /\ pc' = "remove") =>
             Size(edges') < Size(edges)]_vars

\* Sort returned after as many passes as there are vertices: a chain of
\* four, one vertex in each layer.
C17_Witness ==
    /\ Returned
    /\ Size(start) = 4
    /\ Len(sorted) = 4

\* C19 (re-invocation): when Sort has returned from a call made right after
\* another call of Sort on the same graph: if the first call returned
\* without failure, the second returns no layer and no failure; if the
\* first returned the failure, the second returns no layer and the failure
\* with the same edges and vertices as the first, and leaves the graph as
\* the first left it.
C19_Reinvocation ==
    (Returned /\ prev.kind = "call") =>
        IF ~Failed(prev.err)
        THEN sorted = <<>> /\ err = NoError /\ edges = prev.edges
        ELSE /\ sorted = <<>>
             /\ Failed(err)
             /\ err.Edges = prev.err.Edges
             /\ err.Vertices = prev.err.Vertices
             /\ edges = prev.edges

\* The second call has returned after a first call that produced a layer
\* and then failed on a residual graph of several edges.
C19_Witness ==
    /\ Returned
    /\ prev.kind = "call"
    /\ Failed(prev.err)
    /\ prev.sorted # <<>>
    /\ Len(prev.err.Edges) >= 3

\* The second call has returned after a first call that succeeded with
\* several layers.
C19_WitnessSuccess ==
    /\ Returned
    /\ prev.kind = "call"
    /\ ~Failed(prev.err)
    /\ Len(prev.sorted) >= 2

Executing(mode) == pc = "executing" /\ run.mode = mode

\* The group of the execution that holds v, and whether v has begun.
GroupOf(v) == CHOOSE i \in DOMAIN run.groups : InSeq(run.groups[i], v)
Begun(v) == run.status[v] # "pending"
AllTerminal(i) ==
    \A k \in 1..Len(run.groups[i]) : Terminal(run.status[run.groups[i][k]])

\* C13 (deletion order): when the layers of an acyclic graph are executed
\* for deletion, the groups are the layers in reverse; for every edge (A
\* depends on B) the batch of A comes strictly before the batch of B, and B
\* is not begun before A has reached a terminal outcome.  For the two
\* vertices ns1 and podB with the edge podB -> ns1 the apply order is
\* [{ns1}, {podB}] and the prune order is [{podB}, {ns1}].
C13_DeletionOrder ==
    /\ Executing("prune") =>
          /\ run.groups = Reverse(sorted)
          /\ \A e \in EdgeSet(start) :
                /\ GroupOf(e[1]) < GroupOf(e[2])
                /\ Begun(e[2]) => Terminal(run.status[e[1]])
    /\ \A ns1, podB \in Vertices :
          (/\ pc = "executing"
           /\ ns1 # podB
           /\ VertexSet(start) = {ns1, podB}
           /\ EdgeSet(start) = {<<podB, ns1>>})
          => /\ GroupsOf("apply", sorted) = <<(<<ns1>>), (<<podB>>)>>
             /\ GroupsOf("prune", sorted) = <<(<<podB>>), (<<ns1>>)>>
             /\ run.groups = GroupsOf(run.mode, sorted)

\* A deletion of three batches or more in which a dependency is being
\* deleted after its dependent has failed to be.
C13_Witness ==
    /\ Executing("prune")
    /\ Len(run.groups) >= 3
    /\ \E e \in EdgeSet(start) :
          run.status[e[2]] = "running" /\ run.status[e[1]] = "failed"

\* C14 (layer barrier): when the layers are executed for creation, a group
\* reports Started only after the group before it has reported Finished
\* with every resource of it at a terminal outcome; a resource has begun
\* only if its group has started and every group before it has finished
\* with all its resources terminal, however the workers of the pool
\* interleave; so no resource has begun before all its dependencies have
\* reached a terminal outcome.
C14_LayerBarrier ==
    Executing("apply") =>
        /\ run.groups = sorted
        /\ \A i \in DOMAIN run.group :
              (i > 1 /\ run.group[i] # "waiting") =>
                  run.group[i - 1] = "finished" /\ AllTerminal(i - 1)
        /\ \A i \in DOMAIN run.group :
              run.group[i] = "finished" => AllTerminal(i)
        /\ \A v \in DOMAIN run.status :
              Begun(v) =>
                  /\ run.group[GroupOf(v)] # "waiting"
                  /\ \A j \in 1..(GroupOf(v) - 1) :
                        run.group[j] = "finished" /\ AllTerminal(j)
        /\ \A e \in EdgeSet(start) :
              Begun(e[1]) => Terminal(run.status[e[2]])
        /\ NumRunning(run.status) <= PoolSize

\* A creation in which two workers are at two resources of the second
\* layer at the same time, after a resource of the first layer failed.
C14_Witness ==
    /\ Executing("apply")
    /\ NumRunning(run.status) = 2
    /\ \E v \in DOMAIN run.status :
          run.status[v] = "running" /\ GroupOf(v) = 2
    /\ \E e \in EdgeSet(start) :
          run.status[e[1]] = "running" /\ run.status[e[2]] = "failed"

====
